---- MODULE Spec2Model ----
(***************************************************************************)
(* Pagination layout engine of the LegalBridge paginated editor.           *)
(*                                                                         *)
(* Page-Container strategy: PaginationExtension.appendTransaction          *)
(* (src/unnamed/part_000:158-274) over a document of page nodes            *)
(* (PageNode, src/unnamed/part_000:19-125).                                *)
(*                                                                         *)
(* Flow-Spacer strategy, its render scheduler and the caret guard:         *)
(* createFooterReservePlugin and createSelectionGuardPlugin of the two     *)
(* versions of PaginatedEditor (src/unnamed/part_000:334-605 and           *)
(* src/unnamed/part_001:68-440).                                           *)
(*                                                                         *)
(* Document positions are ProseMirror positions: a page node of content    *)
(* size c occupies c + 2 positions, position 0 is before the first page.   *)
(***************************************************************************)
EXTENDS Integers, Sequences, FiniteSets, TLC

\* ---------------------------------------------------------------- bounds
MaxPages == 3
MaxBlocks == 4
FillerHeight == 24

\* ------------------------------------------------- page geometry (part_000)
pageHeightPx == 1056
headerReservePx == 48
footerReservePx == 152
pageContentHeightPx == 856
maxPasses == 25
underflowSlack == 24

\* The kinds of text block a transaction can put into the document:
\* nodeSize (text length + 2) and rendered height in px.
BlockKinds == { [size |-> 3, h |-> 440], [size |-> 4, h |-> 900] }

\* The empty paragraph that fills a node whose content expression is
\* "block+" (createAndFill, and the fill of a page emptied by a deletion).
FillerBlock == [id |-> 0, size |-> 2, h |-> FillerHeight]

Max(a, b) == IF a >= b THEN a ELSE b
Min(a, b) == IF a <= b THEN a ELSE b

RECURSIVE SumSizes(_)
SumSizes(blocks) ==
  IF blocks = <<>> THEN 0 ELSE Head(blocks).size + SumSizes(Tail(blocks))

RECURSIVE SumHeights(_)
SumHeights(blocks) ==
  IF blocks = <<>> THEN 0 ELSE Head(blocks).h + SumHeights(Tail(blocks))

\* nodeSize of a page node: its content plus the opening and closing token.
PageNodeSize(page) == 2 + SumSizes(page)

RECURSIVE ContentSize(_)
ContentSize(doc) ==
  IF doc = <<>> THEN 0 ELSE PageNodeSize(Head(doc)) + ContentSize(Tail(doc))

\* getPageStartPos(doc, pageIndex), pageIndex 0-based.
getPageStartPos(doc, pageIndex) == ContentSize(SubSeq(doc, 1, pageIndex))

\* childOffsetInside(node, childIndex), childIndex 0-based.
childOffsetInside(node, childIndex) == SumSizes(SubSeq(node, 1, childIndex))

\* The blocks of a document in document order.
RECURSIVE Flatten(_)
Flatten(doc) == IF doc = <<>> THEN <<>> ELSE Head(doc) \o Flatten(Tail(doc))

\* el.scrollHeight of a page's content container: the container is
\* absolutely positioned between the header and the footer reserve of a
\* page card of fixed height, so it reports at least its own client height.
ClientHeight == pageHeightPx - headerReservePx - footerReservePx
ScrollHeight(page) == Max(ClientHeight, SumHeights(page))

\* getPageContentHeights(view): one entry per rendered page container.
getPageContentHeights(renderedDoc) ==
  [i \in 1..Len(renderedDoc) |-> ScrollHeight(renderedDoc[i])]

\* heights[pageIndex] ?? 0
HeightAt(heights, pageIndex) ==
  IF pageIndex + 1 <= Len(heights) THEN heights[pageIndex + 1] ELSE 0

\* ------------------------------------------------ position mapping
\* StepMap.map for a map of one range <<start, oldSize, newSize>>.
StepMapMap(range, pos, assoc) ==
  LET start == range[1]
      oldSize == range[2]
      newSize == range[3]
      end == start + oldSize
  IN IF start > pos THEN pos
     ELSE IF pos <= end
       THEN LET side == IF oldSize = 0 THEN assoc
                        ELSE IF pos = start THEN -1
                        ELSE IF pos = end THEN 1 ELSE assoc
            IN start + (IF side < 0 THEN 0 ELSE newSize)
       ELSE pos + (newSize - oldSize)

\* tr.mapping.map(pos, assoc): through every step of the transaction so far,
\* maps[i..] applied in order.
RECURSIVE MappingMapFrom(_, _, _, _)
MappingMapFrom(maps, i, pos, assoc) ==
  IF i > Len(maps) THEN pos
  ELSE CHOOSE res \in
         { MappingMapFrom(maps, j, p, assoc) :
             p \in {StepMapMap(maps[i], pos, assoc)}, j \in {i + 1} } : TRUE

MappingMap(maps, pos, assoc) == MappingMapFrom(maps, 1, pos, assoc)

\* doc.resolve(pos), reduced to what an insertion needs: out of range,
\* between two pages, between two blocks of a page, or inside a block.
RECURSIVE ResolveInPage(_, _, _)
ResolveInPage(page, childIndex, rel) ==
  IF rel = 0 THEN [kind |-> "in", child |-> childIndex]
  ELSE IF page = <<>> THEN [kind |-> "top", child |-> 0]
  ELSE IF rel < Head(page).size THEN [kind |-> "blk", child |-> childIndex]
  ELSE ResolveInPage(Tail(page), childIndex + 1, rel - Head(page).size)

RECURSIVE ResolveFrom(_, _, _)
ResolveFrom(doc, pageIndex, rel) ==
  IF rel = 0 \/ doc = <<>> THEN [kind |-> "top", page |-> pageIndex, child |-> 0]
  ELSE IF rel < PageNodeSize(Head(doc))
    THEN LET r == ResolveInPage(Head(doc), 0, rel - 1)
         IN [kind |-> r.kind, page |-> pageIndex, child |-> r.child]
    ELSE ResolveFrom(Tail(doc), pageIndex + 1, rel - PageNodeSize(Head(doc)))

Resolve(doc, pos) ==
  IF pos < 0 \/ pos > ContentSize(doc)
    THEN [kind |-> "oor", page |-> 0, child |-> 0]
    ELSE ResolveFrom(doc, 0, pos)

InsertAt(seq, index, x) ==
  SubSeq(seq, 1, index) \o <<x>> \o SubSeq(seq, index + 1, Len(seq))

RemoveAt(seq, index) ==
  SubSeq(seq, 1, index) \o SubSeq(seq, index + 2, Len(seq))

\* ------------------------------------------------ transaction steps
\* tr.delete(from, to) of one whole block. A page is "block+": a deletion
\* that would leave it empty is fitted with one empty paragraph instead.
DeleteBlock(doc, from, to) ==
  LET r == Resolve(doc, from)
      page == doc[r.page + 1]
      fits == /\ r.kind = "in"
              /\ r.child < Len(page)
              /\ page[r.child + 1].size = to - from
      rest == RemoveAt(page, r.child)
      filled == IF rest = <<>> THEN <<FillerBlock>> ELSE rest
  IN IF ~fits THEN [ok |-> FALSE, doc |-> doc, map |-> <<from, 0, 0>>]
     ELSE [ok |-> TRUE,
           doc |-> [doc EXCEPT ![r.page + 1] = filled],
           map |-> <<from, to - from, IF rest = <<>> THEN FillerBlock.size ELSE 0>>]

\* tr.insert(pos, block): resolving a position outside the document throws
\* a RangeError; a position between two blocks of a page takes the block.
InsertBlock(doc, pos, block) ==
  LET r == Resolve(doc, pos)
  IN IF r.kind = "oor" THEN [result |-> "throw", doc |-> doc]
     ELSE IF r.kind = "in"
       THEN [result |-> "ok",
             doc |-> [doc EXCEPT ![r.page + 1] = InsertAt(@, r.child, block)]]
       ELSE [result |-> "misfit", doc |-> doc]

\* tr = tr.delete(from, to); pos = tr.mapping.map(posBefore, assoc);
\* tr = tr.insert(pos, block); changed = true; didMove = true
MoveBlock(st, trDoc, maps, from, to, block, posBefore, assoc, kind, pageIndex) ==
  CHOOSE res \in
    { IF ~del.ok THEN [st EXCEPT !.endedBy = "misfit", !.didMove = FALSE,
                                 !.failed = kind]
      ELSE CHOOSE res2 \in
        { LET target == Resolve(del.doc, pos)
              newDoc == InsertBlock(del.doc, pos, block).doc
              move == [kind |-> kind, block |-> block, page |-> pageIndex,
                       toPage |-> target.page, toChild |-> target.child,
                       after |-> IF target.kind = "in"
                                   THEN SumHeights(newDoc[target.page + 1])
                                   ELSE 0]
          IN IF target.kind = "oor"
               THEN [st EXCEPT !.endedBy = "throw", !.didMove = FALSE,
                               !.failed = kind]
             ELSE IF target.kind # "in"
               THEN [st EXCEPT !.endedBy = "misfit", !.didMove = FALSE,
                               !.failed = kind]
             ELSE [st EXCEPT !.doc = newDoc,
                             !.maps = maps \o <<del.map, <<pos, 0, block.size>> >>,
                             !.changed = TRUE,
                             !.didMove = TRUE,
                             !.moves = Append(@, move)]
          : pos \in {MappingMap(Append(maps, del.map), posBefore, assoc)} } : TRUE
      : del \in {DeleteBlock(trDoc, from, to)} } : TRUE

\* First page (0-based) the overflow scan stops at, or -1.
OverflowCandidate(doc, heights) ==
  LET c == { i \in 0..(Len(doc) - 1) :
               HeightAt(heights, i) > pageContentHeightPx /\ Len(doc[i + 1]) > 1 }
  IN IF c = {} THEN -1 ELSE CHOOSE i \in c : \A j \in c : i <= j

\* Overflow: push last block down (part_000:196-230).
OverflowCheck(st, heights) ==
  LET doc == st.doc
      pageIndex == OverflowCandidate(doc, heights)
      pageNode == doc[pageIndex + 1]
      lastIndex == Len(pageNode) - 1
      lastBlock == pageNode[lastIndex + 1]
      isLast == pageIndex = Len(doc) - 1
      emptyPage == <<FillerBlock>>
      trDoc == IF isLast THEN Append(doc, emptyPage) ELSE doc
      maps == IF isLast
                THEN Append(st.maps, <<ContentSize(doc), 0, PageNodeSize(emptyPage)>>)
                ELSE st.maps
      pageStartPos == getPageStartPos(doc, pageIndex)
      pageInside == pageStartPos + 1
      cutFrom == pageInside + childOffsetInside(pageNode, lastIndex)
      cutTo == cutFrom + lastBlock.size
      nextPageStartPos == getPageStartPos(trDoc, pageIndex + 1)
      nextInsertPosBefore == nextPageStartPos + 1
  IN IF pageIndex = -1 THEN [st EXCEPT !.didMove = FALSE]
     ELSE IF cutFrom < 0 \/ cutTo > ContentSize(trDoc) + 2
       THEN [st EXCEPT !.doc = trDoc, !.maps = maps, !.didMove = FALSE,
                       !.appended = @ + (IF isLast THEN 1 ELSE 0)]
     ELSE MoveBlock([st EXCEPT !.appended = @ + (IF isLast THEN 1 ELSE 0)],
                    trDoc, maps, cutFrom, cutTo, lastBlock,
                    nextInsertPosBefore, -1, "over", pageIndex)

\* First page (0-based) the underflow scan stops at, or -1.
UnderflowCandidate(doc, heights) ==
  LET c == { i \in 0..(Len(doc) - 2) :
               /\ HeightAt(heights, i) < pageContentHeightPx - underflowSlack
               /\ Len(doc[i + 2]) # 0 }
  IN IF c = {} THEN -1 ELSE CHOOSE i \in c : \A j \in c : i <= j

\* Underflow: pull first block up (part_000:234-264).
UnderflowCheck(st, heights) ==
  LET doc2 == st.doc
      pageIndex == UnderflowCandidate(doc2, heights)
      nextPageNode == doc2[pageIndex + 2]
      firstBlock == nextPageNode[1]
      nextPageStartPos == getPageStartPos(doc2, pageIndex + 1)
      nextFrom == nextPageStartPos + 1
      nextTo == nextFrom + firstBlock.size
      pageStartPos == getPageStartPos(doc2, pageIndex)
      pageEndInsideBefore == pageStartPos + PageNodeSize(doc2[pageIndex + 1]) - 1
  IN IF pageIndex = -1 THEN [st EXCEPT !.didMove = FALSE]
     ELSE IF nextFrom < 0 \/ nextTo > ContentSize(doc2) + 2
       THEN [st EXCEPT !.didMove = FALSE]
     ELSE MoveBlock(st, doc2, st.maps, nextFrom, nextTo, firstBlock,
                    pageEndInsideBefore, 1, "under", pageIndex)

\* const heights = getPageContentHeights(view) of a pass that follows a
\* move: whether the value read for a page the move changed is the height
\* the page had before the move.
HeightsReused(st, heights) ==
  /\ st.moves # <<>>
  /\ LET m == st.moves[Len(st.moves)]
     IN \E p \in {m.page, m.page + 1} :
          /\ p + 1 <= Len(st.doc)
          /\ HeightAt(heights, p) # ScrollHeight(st.doc[p + 1])

\* One iteration of for (let pass = 0; pass < maxPasses; pass += 1) { ... }
PassBody(st, heights, limit) ==
  IF st.passes >= limit THEN [st EXCEPT !.endedBy = "limit"]
  ELSE IF Len(heights) = 0
    THEN [st EXCEPT !.passes = @ + 1, !.endedBy = "nomeasure"]
  ELSE CHOOSE res \in
         { IF o.endedBy # "running" \/ o.didMove THEN o
           ELSE CHOOSE res2 \in
                  { IF u.endedBy # "running" \/ u.didMove THEN u
                    ELSE [u EXCEPT !.endedBy = "nomove"]
                    : u \in {UnderflowCheck(o, heights)} } : TRUE
           : o \in {OverflowCheck([st EXCEPT !.passes = @ + 1,
                                              !.reused = @ \/ HeightsReused(st, heights)],
                                   heights)} } : TRUE

\* The loop condition written pass <= maxPasses.
PassOffByOne(st, heights) == PassBody(st, heights, maxPasses + 1)

Pass(st, heights) == PassBody(st, heights, maxPasses)

RECURSIVE RunPasses(_, _)
RunPasses(st, heights) ==
  IF st.endedBy # "running" THEN st
  ELSE CHOOSE res \in { RunPasses(s, heights) : s \in {Pass(st, heights)} } : TRUE

\* appendTransaction(transactions, oldState, newState) for a transaction
\* that changed the document; heights are what the view's DOM reports.
appendTransaction(newDoc, heights) ==
  RunPasses([doc |-> newDoc, maps |-> <<>>, changed |-> FALSE, didMove |-> FALSE,
             passes |-> 0, moves |-> <<>>, appended |-> 0, reused |-> FALSE,
             failed |-> "none", endedBy |-> "running"],
            heights)


\* ================================================== Flow-Spacer strategy
\* PaginatedEditor, two versions of the same component:
\*   variant 0 is src/unnamed/part_000:333-537,
\*   variant 1 is src/unnamed/part_001:67-300.
PAGE_HEIGHT == 1056
PAGE_GAP == 56
PAGE_STRIDE == PAGE_HEIGHT + PAGE_GAP

\* Math.round(PAGE_HEIGHT * 0.10) and Math.round(PAGE_HEIGHT * 0.08)
PAGE_TOP_PADDING(variant) == IF variant = 0 THEN 106 ELSE 84
PAGE_FOOTER_HEIGHT(variant) == IF variant = 0 THEN 106 ELSE 84
PAGE_BOTTOM_PADDING(variant) == PAGE_FOOTER_HEIGHT(variant)
PAGE_CONTENT_HEIGHT(variant) ==
  PAGE_HEIGHT - PAGE_TOP_PADDING(variant) - PAGE_BOTTOM_PADDING(variant)
footerCarryHeight(variant) ==
  PAGE_BOTTOM_PADDING(variant) + PAGE_GAP + PAGE_TOP_PADDING(variant)

\* bounds of the flow document
MaxFlowBlocks == 3
MaxEditsPerFrame == 2

\* Text blocks of the flow document: nodeSize and height of the text in px.
\* A short paragraph fits a page; a long one is taller than the capacity.
FlowKinds == { [size |-> 2, h |-> 500], [size |-> 3, h |-> 1000] }

\* doc.content.size of a flat document of text blocks.
FlowDocSize(blocks) == SumSizes(blocks)

FlowBlockPos(blocks, i) == SumSizes(SubSeq(blocks, 1, i - 1))

\* Total height of the spacer widgets the decorations put at pos
\* (height:${Math.max(0, height)}px).
RECURSIVE SpacerAt(_, _)
SpacerAt(decorations, pos) ==
  IF decorations = <<>> THEN 0
  ELSE (IF Head(decorations).pos = pos THEN Max(0, Head(decorations).height) ELSE 0)
       + SpacerAt(Tail(decorations), pos)

\* getBoundingClientRect().height of the element of block i. A widget at
\* position 1 lies inside the first block (Math.max(1, block.pos)), so the
\* element of the first block contains it; every other widget is a sibling
\* of the blocks.
ElementHeight(blocks, rendered, i) ==
  blocks[i].h + (IF i = 1 THEN SpacerAt(rendered, 1) ELSE 0)

\* collectBlockRects(view): pos and height of every text block.
collectBlockRects(blocks, rendered) ==
  [i \in 1..Len(blocks) |->
     [pos |-> FlowBlockPos(blocks, i),
      height |-> Max(1, ElementHeight(blocks, rendered, i))]]

\* createSpacerDecoration(pos, height, key): a widget decoration.
createSpacerDecoration(pos, height, kind, fillerIndex) ==
  [pos |-> pos, height |-> height, key |-> <<kind, pos, fillerIndex>>]

\* while (blockRemaining > remainingOnPage && remainingOnPage > 0) { ... }
RECURSIVE FillerLoop(_, _, _, _)
FillerLoop(variant, acc, pos, blockRemaining) ==
  IF blockRemaining > acc.remainingOnPage /\ acc.remainingOnPage > 0
    THEN FillerLoop(variant,
           [remainingOnPage |-> PAGE_CONTENT_HEIGHT(variant),
            fillerIndex |-> acc.fillerIndex + 1,
            decorations |-> Append(acc.decorations,
               createSpacerDecoration(pos,
                  acc.remainingOnPage + footerCarryHeight(variant),
                  "page-filler", acc.fillerIndex))],
           pos, blockRemaining - acc.remainingOnPage)
    ELSE [acc |-> acc, blockRemaining |-> blockRemaining]

\* Body of for (const block of blockRects) in part_000:437-459.
PlaceBlock0(acc, block, docSize) ==
  CHOOSE res \in
    { LET split == w.blockRemaining >= w.acc.remainingOnPage
          filler == (w.blockRemaining - w.acc.remainingOnPage) + footerCarryHeight(0)
          rest == IF split THEN w.acc.remainingOnPage ELSE w.blockRemaining
      IN [remainingOnPage |-> Max(w.acc.remainingOnPage - rest, 0),
          fillerIndex |-> w.acc.fillerIndex + (IF split THEN 1 ELSE 0),
          decorations |->
            IF split
              THEN Append(w.acc.decorations,
                     createSpacerDecoration(Max(1, Min(block.pos, docSize)), filler,
                                            "page-filler-split", w.acc.fillerIndex))
              ELSE w.acc.decorations] :
      w \in { FillerLoop(0, acc, Max(1, Min(block.pos, docSize)),
                         Min(Max(block.height, 1), PAGE_HEIGHT * 2)) } } : TRUE

\* if (remainingOnPage <= 0) { ... } of part_001:203-208.
Carry(acc, pos) ==
  IF acc.remainingOnPage <= 0
    THEN [remainingOnPage |-> PAGE_CONTENT_HEIGHT(1),
          fillerIndex |-> acc.fillerIndex + 1,
          decorations |-> Append(acc.decorations,
             createSpacerDecoration(pos, footerCarryHeight(1),
                                    "page-filler-carry", acc.fillerIndex))]
    ELSE acc

\* Body of for (const block of blockRects) in part_001:199-222.
PlaceBlock1(acc, block, docSize) ==
  CHOOSE res \in
    { [w.acc EXCEPT !.remainingOnPage =
                      Max(0, @ - Min(w.blockRemaining, w.acc.remainingOnPage))] :
      w \in { FillerLoop(1, carried, Max(1, Min(block.pos, docSize)),
                         Min(Max(1, block.height), PAGE_HEIGHT * 2)) :
              carried \in {Carry(acc, Max(1, Min(block.pos, docSize)))} } } : TRUE

RECURSIVE PlaceBlocks(_, _, _, _)
PlaceBlocks(variant, acc, blockRects, docSize) ==
  IF blockRects = <<>> THEN acc
  ELSE CHOOSE res \in
         { PlaceBlocks(variant, placed, Tail(blockRects), docSize) :
             placed \in { IF variant = 0
                            THEN PlaceBlock0(acc, Head(blockRects), docSize)
                            ELSE PlaceBlock1(acc, Head(blockRects), docSize) } } : TRUE

\* buildFooterDecorations(view): the marker set for the measured blocks.
buildFooterDecorations(variant, blocks, rendered) ==
  CHOOSE res \in
    { IF blocks = <<>> THEN <<>>
      ELSE IF acc.remainingOnPage < PAGE_CONTENT_HEIGHT(variant)
        THEN Append(acc.decorations,
               [pos |-> FlowDocSize(blocks),
                height |-> acc.remainingOnPage + PAGE_BOTTOM_PADDING(variant),
                key |-> <<"page-filler-tail", acc.fillerIndex>>])
        ELSE acc.decorations :
      acc \in { PlaceBlocks(variant,
                  [remainingOnPage |-> PAGE_CONTENT_HEIGHT(variant),
                   fillerIndex |-> 0, decorations |-> <<>>],
                  blockRects, FlowDocSize(blocks)) :
                blockRects \in {collectBlockRects(blocks, rendered)} } } : TRUE

\* areDecorationSetsEqual(a, b, docSize): positions and keys, not heights.
areDecorationSetsEqual(a, b) ==
  /\ Len(a) = Len(b)
  /\ \A i \in 1..Len(a) : a[i].pos = b[i].pos /\ a[i].key = b[i].key

\* WidgetType.map through one replaced range with side -1: the widget is
\* dropped when the content before it was deleted.
RECURSIVE MapDecorations(_, _)
MapDecorations(old, range) ==
  IF old = <<>> THEN <<>>
  ELSE LET d == Head(old)
           deleted == range[1] < d.pos /\ d.pos <= range[1] + range[2]
           rest == MapDecorations(Tail(old), range)
       IN IF deleted THEN rest
          ELSE <<[d EXCEPT !.pos = StepMapMap(range, d.pos, -1)]>> \o rest

\* apply(tr, old) without the meta branch.
FooterApplyMapsOnly(tr, old) ==
  IF tr.docChanged THEN MapDecorations(old, tr.range) ELSE old

\* Plugin state apply(tr, old) of the footer-reserve plugin.
FooterApply(tr, old) ==
  IF tr.hasMeta THEN tr.meta
  ELSE IF tr.docChanged THEN MapDecorations(old, tr.range)
  ELSE old

\* Transactions: docChanged is steps.length > 0, selectionSet is set by
\* setSelection, hasMeta/meta is the value stored under the plugin key.
DocTr(range) ==
  [hasMeta |-> FALSE, meta |-> <<>>, docChanged |-> TRUE, range |-> range,
   selectionSet |-> FALSE]
\* editorView.state.tr.setMeta(footerReservePluginKey, nextDecorations)
MetaTr(meta) ==
  [hasMeta |-> TRUE, meta |-> meta, docChanged |-> FALSE, range |-> <<0, 0, 0>>,
   selectionSet |-> FALSE]
\* Nothing dispatched.
NoTr ==
  [hasMeta |-> FALSE, meta |-> <<>>, docChanged |-> FALSE, range |-> <<0, 0, 0>>,
   selectionSet |-> FALSE]

\* The text blocks collectBlockRects finds an element for
\* (if (!element) return true): all of them, or none while nothing is
\* rendered.
Measurable(blocks, hasElement) == IF hasElement THEN blocks ELSE <<>>

\* schedule(): request a frame unless one is already requested.
\* s.frame is 0 for null; s.pending counts the callbacks the browser holds.
scheduleUnguarded(s) == [frame |-> 1, pending |-> s.pending + 1]

schedule(s) ==
  IF s.frame # 0 THEN s ELSE [frame |-> 1, pending |-> s.pending + 1]

\* update(view, prevState) called without its early return.
updateAlways(s, tr) == schedule(s)

\* update(view, prevState) of the plugin view, called after tr is applied:
\* it returns when document and selection are as before.
update(s, tr) ==
  IF ~tr.docChanged /\ ~tr.selectionSet THEN s ELSE schedule(s)

\* What the callback does once it has measured: compare, dispatch (the
\* view then calls update). reentrant: something the dispatch sets off
\* calls schedule() as well, the selection change of another plugin or the
\* ResizeObserver seeing the editor element change height.
Relayout(s, current, nextDecorations, reentrant) ==
  LET dispatched == ~areDecorationSetsEqual(current, nextDecorations)
      updated == IF dispatched THEN update(s, MetaTr(nextDecorations)) ELSE s
  IN [sched |-> IF dispatched /\ reentrant THEN schedule(updated) ELSE updated,
      dispatched |-> dispatched,
      retriggered |-> dispatched /\ reentrant,
      tr |-> IF dispatched THEN MetaTr(nextDecorations) ELSE NoTr,
      markers |-> IF dispatched THEN FooterApply(MetaTr(nextDecorations), current)
                  ELSE current]

\* The frame callback with frame = null as its last statement.
FrameCallbackClearsLast(s, variant, blocks, current, reentrant, hasElement) ==
  CHOOSE res \in
    { [r EXCEPT !.sched.frame = 0] :
        r \in { Relayout([frame |-> s.frame, pending |-> s.pending - 1],
                         current, nextDecorations, reentrant) :
                nextDecorations \in
                  {buildFooterDecorations(variant, Measurable(blocks, hasElement),
                                          current)} } } : TRUE

\* The callback given to requestAnimationFrame: frame = null, measure,
\* compare, dispatch. reentrant: the dispatch makes another plugin change
\* the selection, which calls schedule() before the callback returns.
FrameCallback(s, variant, blocks, current, reentrant, hasElement) ==
  CHOOSE res \in
    { Relayout([frame |-> 0, pending |-> s.pending - 1],
               current, nextDecorations, reentrant) :
        nextDecorations \in
                  {buildFooterDecorations(variant, Measurable(blocks, hasElement),
                                          current)} } : TRUE

\* Layout of the editor element: paddingTop, then the blocks in document
\* order, each preceded by the spacers positioned at it. Top edge of the
\* text of block i, relative to the editor element.
RECURSIVE BlockTop(_, _, _, _)
BlockTop(variant, blocks, rendered, i) ==
  (IF i = 1 THEN PAGE_TOP_PADDING(variant)
   ELSE BlockTop(variant, blocks, rendered, i - 1) + blocks[i - 1].h)
  + SpacerAt(rendered, Max(1, FlowBlockPos(blocks, i)))

\* The page overlay: page n occupies [n * PAGE_STRIDE, n * PAGE_STRIDE +
\* PAGE_HEIGHT), its body lies between the header and the footer reserve.
PageOf(top) == top \div PAGE_STRIDE
BodyStart(variant, page) == page * PAGE_STRIDE + PAGE_TOP_PADDING(variant)
BodyEnd(variant, page) ==
  page * PAGE_STRIDE + PAGE_HEIGHT - PAGE_FOOTER_HEIGHT(variant)
InBody(variant, top, height) ==
  /\ top >= BodyStart(variant, PageOf(top))
  /\ top + height <= BodyEnd(variant, PageOf(top))

\* ------------------------------------------------ the rendered stream
PAGE_MARGIN == 0

RECURSIVE SumSpacers(_)
SumSpacers(decorations) ==
  IF decorations = <<>> THEN 0
  ELSE Max(0, Head(decorations).height) + SumSpacers(Tail(decorations))

\* contentRef.current.scrollHeight: the padded container of the editor,
\* with every block and every spacer widget in it, at least minHeight.
contentHeight(variant, blocks, rendered) ==
  Max(PAGE_HEIGHT,
      PAGE_TOP_PADDING(variant) + SumHeights(blocks) + SumSpacers(rendered)
        + PAGE_BOTTOM_PADDING(variant))

\* Math.max(1, Math.ceil(total / PAGE_STRIDE)) of the pageCount effect.
pageCount(height) ==
  LET total == height + PAGE_MARGIN * 2 + PAGE_GAP
  IN Max(1, (total + PAGE_STRIDE - 1) \div PAGE_STRIDE)

\* ================================================== Caret Guard
\* createSelectionGuardPlugin of the same two versions of PaginatedEditor:
\*   variant 0 is src/unnamed/part_000:541-598,
\*   variant 1 is src/unnamed/part_001:302-433.
HEADER_GUARD_BUFFER_PX == 8
HEADER_GUARD_MARGIN_PX == 4
HEADER_TARGET_OFFSET_PX == 4
PAGE_FOOTER_BORDER_OFFSET == 0

\* bounds of the rendering: height of a line of text, and how many times
\* the guard's own dispatch may re-enter update()
LineHeight == 50
MaxGuardDepth == 4

\* The decorations once the frame callback has run until it dispatches
\* nothing more.
RECURSIVE Settle(_, _, _, _)
Settle(variant, blocks, current, n) ==
  IF n = 0 THEN current
  ELSE CHOOSE res \in
         { IF areDecorationSetsEqual(current, next) THEN current
           ELSE Settle(variant, blocks, next, n - 1) :
             next \in {buildFooterDecorations(variant, blocks, current)} } : TRUE

\* The rendered layout, relative to the editor element: top edge and height
\* of the text of every block, height of the spacers before it, top edges
\* of the lines of text, bottom edge of the last child.
Layout(variant, blocks, rendered) ==
  CHOOSE res \in
    { [top |-> tops,
       h |-> [i \in 1..Len(blocks) |-> blocks[i].h],
       spacer |-> [i \in 1..Len(blocks) |->
                     SpacerAt(rendered, Max(1, FlowBlockPos(blocks, i)))],
       lines |-> UNION { { tops[i] + k * LineHeight :
                            k \in 0..((blocks[i].h - 1) \div LineHeight) } :
                        i \in 1..Len(blocks) },
       bottom |-> tops[Len(blocks)] + blocks[Len(blocks)].h
                    + SpacerAt(rendered, FlowDocSize(blocks))] :
      tops \in { [i \in 1..Len(blocks) |-> BlockTop(variant, blocks, rendered, i)] } } : TRUE

\* A collapsed selection: in the text of a line, or at a position between
\* blocks or after the last one. view.coordsAtPos gives the line box for the
\* first kind and a flat line for the second.
TextCaret(top) == [at |-> "text", top |-> top]
\* A selection that is not empty: from the line at top to the end of the
\* line after it.
RangeSel(top) == [at |-> "range", top |-> top]
BlockCaret(top) == [at |-> "block", top |-> top]
CoordsTop(caret) == caret.top
CoordsBottom(caret) == IF caret.at = "text" THEN caret.top + LineHeight ELSE caret.top

\* target?.pos ?? view.state.doc.content.size
EndOfDoc(layout) == BlockCaret(layout.bottom)

\* view.posAtCoords({ left: domRect.left + 12, top }) followed by
\* TextSelection.create: the selection for the point at height y. The point
\* is in a line of text, or on the spacers before a block (the position of
\* the spacers: the start of the first block, or between two blocks), or
\* below the text; posAtCoords gives null when the point is outside the
\* viewport, and the end of the document is taken then.
posAtCoordsFound(layout, y) ==
  LET hit == { t \in layout.lines : t <= y /\ y < t + LineHeight }
      onSpacer == { i \in DOMAIN layout.top :
                      layout.top[i] - layout.spacer[i] <= y /\ y < layout.top[i] }
  IN IF hit # {} THEN { TextCaret(t) : t \in hit }
     ELSE IF onSpacer # {}
       THEN { IF i = 1 THEN TextCaret(layout.top[i]) ELSE BlockCaret(layout.top[i]) :
              i \in onSpacer }
       ELSE { EndOfDoc(layout) }

posAtCoords(layout, y) == posAtCoordsFound(layout, y) \cup { EndOfDoc(layout) }

NoTarget == [act |-> FALSE, y |-> 0]
Target(y) == [act |-> TRUE, y |-> y]

\* update() of part_000 without if (!sel.empty) return.
GuardTarget0NoEmptyCheck(caret) ==
  LET relativeTop == CoordsTop(caret)
      pageIndex == Max(0, relativeTop \div PAGE_STRIDE)
      pageTop == pageIndex * PAGE_STRIDE
      footerTop == pageTop + PAGE_HEIGHT - PAGE_FOOTER_HEIGHT(0)
  IN IF relativeTop < pageTop + PAGE_TOP_PADDING(0)
       THEN Target(pageTop + PAGE_TOP_PADDING(0) + 2)
     ELSE IF relativeTop >= footerTop
       THEN Target((pageIndex + 1) * PAGE_STRIDE + PAGE_TOP_PADDING(0) + 2)
     ELSE NoTarget

\* update() of part_000:546-589 up to the dispatch: where the guard aims.
GuardTarget0(caret) ==
  LET relativeTop == CoordsTop(caret)
      pageIndex == Max(0, relativeTop \div PAGE_STRIDE)
      pageTop == pageIndex * PAGE_STRIDE
      footerTop == pageTop + PAGE_HEIGHT - PAGE_FOOTER_HEIGHT(0)
  IN IF caret.at = "range" THEN NoTarget
     ELSE IF relativeTop < pageTop + PAGE_TOP_PADDING(0)
       THEN Target(pageTop + PAGE_TOP_PADDING(0) + 2)
     ELSE IF relativeTop >= footerTop
       THEN Target((pageIndex + 1) * PAGE_STRIDE + PAGE_TOP_PADDING(0) + 2)
     ELSE NoTarget

\* update() of part_001:326-421 up to the dispatch. A caret outside every
\* textblock has no textblock ancestor, so blockStartPos and candidateTop
\* stay null there.
GuardTarget1(caret, pointerDown) ==
  LET relativeTop == CoordsTop(caret)
      relativeBottom == CoordsBottom(caret)
      pageIndex == Max(0, relativeTop \div PAGE_STRIDE)
      pageTop == pageIndex * PAGE_STRIDE
      bodyStart == pageTop + PAGE_TOP_PADDING(1)
      guardCeiling == bodyStart - HEADER_GUARD_BUFFER_PX
      footerTop == pageTop + PAGE_HEIGHT - PAGE_FOOTER_HEIGHT(1) + PAGE_FOOTER_BORDER_OFFSET
  IN IF pointerDown THEN NoTarget
     ELSE IF caret.at = "range" THEN NoTarget
     ELSE IF caret.at = "text" THEN NoTarget
     ELSE IF relativeBottom >= guardCeiling THEN NoTarget
     ELSE IF relativeTop <= guardCeiling - HEADER_GUARD_MARGIN_PX
       THEN Target(bodyStart + HEADER_TARGET_OFFSET_PX)
     ELSE IF relativeTop >= footerTop
       THEN Target((pageIndex + 1) * PAGE_STRIDE + PAGE_TOP_PADDING(1) + 2)
     ELSE NoTarget

GuardTarget(variant, caret, pointerDown) ==
  IF variant = 0 THEN GuardTarget0(caret) ELSE GuardTarget1(caret, pointerDown)

\* update() with the updates its own dispatch causes: the selections the
\* guard can leave. A dispatch of the selection that is already set ends
\* the chain (view.state.selection.eq(prevState.selection)). count is the
\* number of transactions dispatched, found tells that every posAtCoords
\* of the chain gave a position.
RECURSIVE GuardRun(_, _, _, _, _)
GuardRun(variant, layout, caret, pointerDown, fuel) ==
  LET g == GuardTarget(variant, caret, pointerDown)
      step(c, found) ==
        IF c = caret
          THEN { [caret |-> caret, settled |-> TRUE, count |-> 1, found |-> found] }
        ELSE { [o EXCEPT !.count = @ + 1, !.found = @ /\ found] :
               o \in GuardRun(variant, layout, c, pointerDown, fuel - 1) }
  IN IF ~g.act
       THEN { [caret |-> caret, settled |-> TRUE, count |-> 0, found |-> TRUE] }
     ELSE IF fuel = 0
       THEN { [caret |-> caret, settled |-> FALSE, count |-> 0, found |-> TRUE] }
     ELSE UNION { step(c, TRUE) : c \in posAtCoordsFound(layout, g.y) }
          \cup step(EndOfDoc(layout), FALSE)

\* Whether update() gets as far as view.coordsAtPos(pos).
ReachesCoords(variant, caret, pointerDown) ==
  IF variant = 0 THEN caret.at # "range"
  ELSE ~pointerDown /\ caret.at = "block"

\* update() for a selection change, with what the lookups do. fail: "coords"
\* when view.coordsAtPos throws or gives nothing, "pos" when view.posAtCoords
\* throws, "none" otherwise; posAtCoords may still give null. The try/catch
\* around the body ends the invocation on a throw. lookup tells which of
\* these happened in the invocation.
GuardUpdate(variant, layout, caret, pointerDown, fail) ==
  LET g == GuardTarget(variant, caret, pointerDown)
      chain(c, tag) ==
        IF c = caret
          THEN { [caret |-> caret, settled |-> TRUE, lookup |-> tag,
                  dispatched |-> TRUE, count |-> 1, found |-> TRUE] }
        ELSE { [caret |-> o.caret, settled |-> o.settled, lookup |-> tag,
                dispatched |-> TRUE, count |-> o.count + 1, found |-> o.found] :
               o \in GuardRun(variant, layout, c, pointerDown, MaxGuardDepth - 1) }
  IN IF ReachesCoords(variant, caret, pointerDown) /\ fail = "coords"
       THEN { [caret |-> caret, settled |-> TRUE, lookup |-> "coords",
               dispatched |-> FALSE, count |-> 0, found |-> TRUE] }
     ELSE IF ~g.act
       THEN { [caret |-> caret, settled |-> TRUE, lookup |-> "ok",
               dispatched |-> FALSE, count |-> 0, found |-> TRUE] }
     ELSE IF fail = "pos"
       THEN { [caret |-> caret, settled |-> TRUE, lookup |-> "pos",
               dispatched |-> FALSE, count |-> 0, found |-> TRUE] }
     ELSE UNION { chain(c, "ok") : c \in posAtCoordsFound(layout, g.y) }
          \cup chain(EndOfDoc(layout), "null")

\* The zone of a vertical position, as the page overlay draws it.
ZoneOf(variant, relativeTop) ==
  LET pageTop == Max(0, relativeTop \div PAGE_STRIDE) * PAGE_STRIDE
  IN IF relativeTop < pageTop + PAGE_TOP_PADDING(variant) THEN "header"
     ELSE IF relativeTop >= pageTop + PAGE_HEIGHT - PAGE_FOOTER_HEIGHT(variant) THEN "footer"
     ELSE "body"

\* ================================================================ State
VARIABLES
  pcDoc,       \* Page-Container: document of the editor state, as rendered
  pcLast,      \* Page-Container: what the last transaction and its relayout did
  pcMounted,   \* Page-Container: the page content containers are in the DOM
  fsVariant,   \* Flow-Spacer: which version of the component runs
  fsBlocks,    \* Flow-Spacer: the text blocks of the document
  fsMarkers,   \* Flow-Spacer: plugin state, the current spacer decorations
  fsSched,     \* Flow-Spacer: [frame, pending] of the plugin view
  fsFlags,     \* Flow-Spacer: [stale, quiet, runBit, destroyed, edits]
  fsLast,      \* Flow-Spacer: what the last frame callback did
  cgCaret,     \* Caret Guard: the collapsed selection
  cgPointerDown, \* Caret Guard: a mouse button is held (selectionGuardPointerDown)
  cgLast       \* Caret Guard: what the last selection change and the guard did

pcVars == <<pcDoc, pcLast, pcMounted>>
fsVars == <<fsVariant, fsBlocks, fsMarkers, fsSched, fsFlags, fsLast>>
cgVars == <<cgCaret, cgPointerDown, cgLast>>
vars == <<pcVars, fsVars, cgVars>>

NewBlock(kind) == [id |-> 0, size |-> kind.size, h |-> kind.h]

\* Blocks labelled 1, 2, ... in document order: the label is the block's
\* identity while one transaction is dispatched.
RECURSIVE NumberBlocks(_, _)
NumberBlocks(doc, nextId) ==
  IF doc = <<>> THEN <<>>
  ELSE LET page == Head(doc)
       IN << [i \in 1..Len(page) |->
                [id |-> nextId + i - 1, size |-> page[i].size, h |-> page[i].h]] >>
          \o NumberBlocks(Tail(doc), nextId + Len(page))

BlockIds(doc) == [i \in 1..Len(Flatten(doc)) |-> Flatten(doc)[i].id]

NoRelayout ==
  [trigger |-> "init", blocks |-> 0, pages |-> 0, changed |-> FALSE, passes |-> 0,
   moves |-> <<>>, appended |-> 0, reused |-> FALSE, failed |-> "none",
   endedBy |-> "none"]


NoRun ==
  [ran |-> FALSE, second |-> FALSE, dispatched |-> FALSE, changed |-> FALSE,
   served |-> 0, retriggered |-> FALSE, servedReentrant |-> FALSE,
   measured |-> FALSE, tr |-> "none"]

\* The editor that is not under study holds nothing and does nothing.
PCOff == pcDoc = <<>> /\ pcLast = NoRelayout /\ pcMounted = FALSE
FSOff ==
  /\ fsVariant = 0 /\ fsBlocks = <<>> /\ fsMarkers = <<>>
  /\ fsSched = [frame |-> 0, pending |-> 0]
  /\ fsFlags = [stale |-> FALSE, quiet |-> FALSE, runBit |-> FALSE, destroyed |-> FALSE,
               edits |-> 0]
  /\ fsLast = NoRun

NoGuard ==
  [processed |-> FALSE, settled |-> TRUE, relocated |-> FALSE, pressed |-> FALSE,
   from |-> [at |-> "none", top |-> 0], lookup |-> "ok", dispatched |-> FALSE,
   count |-> 0, found |-> TRUE]
CGOff ==
  /\ cgCaret = [at |-> "none", top |-> 0]
  /\ cgPointerDown = FALSE
  /\ cgLast = NoGuard

\* ------------------------------------------------ Page-Container actions
\* The editor opens on one page holding one paragraph; the node views of
\* the pages are not rendered yet.
PCInit ==
  /\ pcDoc \in { NumberBlocks(<< <<NewBlock(kind)>> >>, 1) : kind \in BlockKinds }
  /\ pcLast = NoRelayout
  /\ pcMounted = FALSE
  /\ FSOff
  /\ CGOff

\* view.dispatch(tr) of a transaction that changed the document to edited:
\* state.apply runs appendTransaction before the view is updated, so the
\* heights are those of the DOM as it stands (rendered), none while no
\* page content container is in the DOM; an exception leaves state and view
\* as they were; otherwise the view renders the new state.
Dispatch(trigger, edited, rendered) ==
  \E newDoc \in {NumberBlocks(edited, 1)} :
  \E heights \in {getPageContentHeights(IF pcMounted THEN rendered ELSE <<>>)} :
  \E r \in {appendTransaction(newDoc, heights)} :
     /\ pcLast' = [trigger |-> trigger, blocks |-> Len(Flatten(newDoc)),
                   pages |-> Len(newDoc), changed |-> r.changed,
                   passes |-> r.passes, moves |-> r.moves,
                   appended |-> r.appended, reused |-> r.reused, failed |-> r.failed,
                   endedBy |-> r.endedBy]
     /\ pcDoc' = IF r.endedBy = "throw" THEN pcDoc
                 ELSE IF r.changed THEN r.doc ELSE newDoc
     /\ UNCHANGED <<pcMounted, fsVars, cgVars>>

\* The node views render: every page gets its content container.
PCMount ==
  /\ ~pcMounted
  /\ pcMounted' = TRUE
  /\ UNCHANGED <<pcDoc, pcLast, fsVars, cgVars>>

\* Typing in a block changes its text length and its rendered height. The
\* browser has already put the typed text into the DOM when the transaction
\* is dispatched, and may or may not have laid it out when heights are read.
PCType ==
  \E p \in 1..Len(pcDoc) : \E i \in 1..Len(pcDoc[p]) : \E kind \in BlockKinds :
    /\ kind # [size |-> pcDoc[p][i].size, h |-> pcDoc[p][i].h]
    /\ \E edited \in {[pcDoc EXCEPT ![p][i] = NewBlock(kind)]} :
       \E rendered \in {pcDoc, edited} :
          Dispatch("edit", edited, rendered)

\* Enter at the end of a page adds a block to it.
PCEnter ==
  \E p \in 1..Len(pcDoc) : \E kind \in BlockKinds :
    /\ Len(Flatten(pcDoc)) < MaxBlocks
    /\ Dispatch("edit", [pcDoc EXCEPT ![p] = Append(@, NewBlock(kind))], pcDoc)

\* Pasting or setting content that ends with one or two more pages.
PCPaste ==
  \E n \in 1..2 : \E kinds \in [1..n -> BlockKinds] :
    /\ Len(pcDoc) + n <= MaxPages
    /\ Len(Flatten(pcDoc)) + n <= MaxBlocks
    /\ Dispatch("edit", pcDoc \o [i \in 1..n |-> <<NewBlock(kinds[i])>>], pcDoc)

\* A transaction with steps that leaves the content as rendered.
PCTouch == Dispatch("touch", pcDoc, pcDoc)

PCNext == PCMount \/ PCType \/ PCEnter \/ PCPaste \/ PCTouch


SpecPC == PCInit /\ [][PCNext]_vars


\* ------------------------------------------------ Scenario C
\* A page that overflows the capacity by 20px and ends with a 50px block:
\* the blocks before the last one share pageContentHeightPx + 20 - 50 px.
ScenarioLastHeight == 50
ScenarioOverflow == 20
ScenarioReduction == 200
ScenarioHeads ==
  LET rest == pageContentHeightPx + ScenarioOverflow - ScenarioLastHeight
  IN { <<rest>>,
       <<rest \div 2, rest - rest \div 2>>,
       <<rest \div 3, rest \div 3, rest - 2 * (rest \div 3)>> }

ScenarioDocs ==
  { NumberBlocks(<< [i \in 1..Len(heads) |-> NewBlock([size |-> 3, h |-> heads[i]])]
                    \o <<NewBlock([size |-> 3, h |-> ScenarioLastHeight])>> >>, 1) :
    heads \in ScenarioHeads }

\* Scenario D starts from the outcome Scenario C describes: the 50px block
\* alone on page 2, the other blocks on page 1.
ScenarioMovedDocs ==
  { NumberBlocks(<< [i \in 1..Len(heads) |-> NewBlock([size |-> 3, h |-> heads[i]])],
                    <<NewBlock([size |-> 3, h |-> ScenarioLastHeight])>> >>, 1) :
    heads \in ScenarioHeads }

\* Page 1 reduced to at most capacity - 200 px (the scenario's 600px of
\* 800px) while page 2 starts with the 50px block.
ScenarioReduced(doc) ==
  /\ Len(doc) >= 2
  /\ SumHeights(doc[1]) <= pageContentHeightPx - ScenarioReduction
  /\ doc[2][1].h = ScenarioLastHeight

\* The editor opens on the page of Scenario C or on the pages of Scenario D.
PCScenarioInit ==
  /\ pcDoc \in ScenarioDocs \cup ScenarioMovedDocs
  /\ pcLast = NoRelayout
  /\ pcMounted = FALSE
  /\ FSOff
  /\ CGOff

SpecPCScenario == PCScenarioInit /\ [][PCNext]_vars

\* view(editorView): frame = null; schedule(); the observer is attached.
FSInit ==
  /\ fsVariant \in {0, 1}
  /\ fsBlocks \in { <<k>> : k \in FlowKinds }
  /\ fsMarkers = <<>>
  /\ fsSched = schedule([frame |-> 0, pending |-> 0])
  /\ fsFlags = [stale |-> TRUE, quiet |-> FALSE, runBit |-> FALSE, destroyed |-> FALSE,
               edits |-> 0]
  /\ fsLast = NoRun
  /\ PCOff
  /\ CGOff

\* A document transaction followed by the plugin view's update().
FSDocChange(newBlocks, range) ==
  /\ ~fsFlags.destroyed
  /\ fsFlags.edits < MaxEditsPerFrame
  /\ fsBlocks' = newBlocks
  /\ fsMarkers' = FooterApply(DocTr(range), fsMarkers)
  /\ fsSched' = schedule(fsSched)
  /\ fsFlags' = [fsFlags EXCEPT !.stale = TRUE, !.quiet = FALSE, !.edits = @ + 1]
  /\ UNCHANGED <<fsVariant, fsLast, pcVars, cgVars>>

\* Typing or formatting in block i: its text is replaced, its height changes.
FSEdit ==
  \E i \in 1..Len(fsBlocks) : \E kind \in FlowKinds :
    /\ kind # fsBlocks[i]
    /\ FSDocChange([fsBlocks EXCEPT ![i] = kind],
                   <<FlowBlockPos(fsBlocks, i) + 1, fsBlocks[i].size - 2, kind.size - 2>>)

\* A new block at the end of the document.
FSEnter ==
  \E kind \in FlowKinds :
    /\ Len(fsBlocks) < MaxFlowBlocks
    /\ FSDocChange(Append(fsBlocks, kind), <<FlowDocSize(fsBlocks), 0, kind.size>>)

\* The last block is deleted.
FSBackspace ==
  /\ Len(fsBlocks) > 1
  /\ FSDocChange(SubSeq(fsBlocks, 1, Len(fsBlocks) - 1),
                 <<FlowBlockPos(fsBlocks, Len(fsBlocks)),
                   fsBlocks[Len(fsBlocks)].size, 0>>)

\* A selection change: update() sees selection.eq fail and schedules.
FSSelect ==
  /\ ~fsFlags.destroyed
  /\ fsSched' = schedule(fsSched)
  /\ fsFlags' = [fsFlags EXCEPT !.stale = TRUE, !.quiet = FALSE]
  /\ UNCHANGED <<fsVariant, fsBlocks, fsMarkers, fsLast, pcVars, cgVars>>

\* The ResizeObserver on the editor DOM reports (new ResizeObserver(schedule)).
FSResize ==
  /\ ~fsFlags.destroyed
  /\ fsSched' = schedule(fsSched)
  /\ fsFlags' = [fsFlags EXCEPT !.stale = TRUE]
  /\ UNCHANGED <<fsVariant, fsBlocks, fsMarkers, fsLast, pcVars, cgVars>>

\* The browser runs a requested animation-frame callback.
FSFrame ==
  /\ ~fsFlags.destroyed
  /\ fsSched.pending > 0
  /\ \E reentrant \in BOOLEAN : \E hasElement \in BOOLEAN :
     \E r \in {FrameCallback(fsSched, fsVariant, fsBlocks, fsMarkers, reentrant,
                              hasElement)} :
       /\ reentrant => r.dispatched
       /\ fsSched' = r.sched
       /\ fsMarkers' = r.markers
       /\ fsFlags' = [fsFlags EXCEPT !.stale = r.retriggered,
                                     !.quiet = ~r.retriggered,
                                     !.runBit = ~@,
                                     !.edits = 0]
       /\ fsLast' = [ran |-> TRUE,
                     second |-> fsFlags.quiet /\ hasElement /\ fsLast.measured,
                     measured |-> hasElement,
                     tr |-> IF r.tr = NoTr THEN "none"
                            ELSE IF r.tr.docChanged \/ r.tr.selectionSet THEN "edit"
                            ELSE "meta",
                     dispatched |-> r.dispatched,
                     changed |-> r.markers # fsMarkers,
                     served |-> fsFlags.edits,
                     retriggered |-> r.retriggered,
                     servedReentrant |-> fsLast.retriggered]
  /\ UNCHANGED <<fsVariant, fsBlocks, pcVars, cgVars>>

\* destroy(): cancelAnimationFrame(frame); observer.disconnect().
FSDestroy ==
  /\ ~fsFlags.destroyed
  /\ fsSched' = IF fsSched.frame # 0
                  THEN [fsSched EXCEPT !.pending = Max(0, @ - 1)]
                  ELSE fsSched
  /\ fsFlags' = [fsFlags EXCEPT !.destroyed = TRUE]
  /\ UNCHANGED <<fsVariant, fsBlocks, fsMarkers, fsLast, pcVars, cgVars>>

FSLiveNext == FSEdit \/ FSEnter \/ FSBackspace \/ FSSelect \/ FSResize \/ FSFrame
FSNext == FSLiveNext \/ FSDestroy

SpecFS == FSInit /\ [][FSNext]_vars

\* The view stays mounted and the browser keeps running animation frames.
SpecFSLive == FSInit /\ [][FSLiveNext]_vars /\ WF_vars(FSFrame)

\* ------------------------------------------------ Scenario A
\* The editor opens on a document of one short paragraph of 40px.
ScenarioShortHeight == 40
ScenarioShortBlock == [size |-> 2, h |-> ScenarioShortHeight]

FSScenarioInit ==
  /\ fsVariant \in {0, 1}
  /\ fsBlocks = <<ScenarioShortBlock>>
  /\ fsMarkers = <<>>
  /\ fsSched = schedule([frame |-> 0, pending |-> 0])
  /\ fsFlags = [stale |-> TRUE, quiet |-> FALSE, runBit |-> FALSE, destroyed |-> FALSE,
               edits |-> 0]
  /\ fsLast = NoRun
  /\ PCOff
  /\ CGOff

SpecFSScenario == FSScenarioInit /\ [][FSNext]_vars

\* ------------------------------------------------ exact fit
\* The editor opens on a document of one paragraph whose height is exactly
\* the capacity of a page.
ExactBlock(variant) == [size |-> 2, h |-> PAGE_CONTENT_HEIGHT(variant)]

FSExactInit ==
  /\ fsVariant \in {0, 1}
  /\ fsBlocks = <<ExactBlock(fsVariant)>>
  /\ fsMarkers = <<>>
  /\ fsSched = schedule([frame |-> 0, pending |-> 0])
  /\ fsFlags = [stale |-> TRUE, quiet |-> FALSE, runBit |-> FALSE, destroyed |-> FALSE,
               edits |-> 0]
  /\ fsLast = NoRun
  /\ PCOff
  /\ CGOff

SpecFSExact == FSExactInit /\ [][FSNext]_vars

\* ------------------------------------------------ Caret Guard actions
FlowDocs == UNION { [1..n -> FlowKinds] : n \in 1..MaxFlowBlocks }

\* The editor shows a document whose relayout has settled; the caret is at
\* the start of the text and no mouse button is held.
CGInit ==
  /\ fsVariant \in {0, 1}
  /\ fsBlocks \in FlowDocs
  /\ fsMarkers = Settle(fsVariant, fsBlocks, <<>>, MaxGuardDepth)
  /\ fsSched = [frame |-> 0, pending |-> 0]
  /\ fsFlags = [stale |-> FALSE, quiet |-> FALSE, runBit |-> FALSE, destroyed |-> FALSE,
               edits |-> 0]
  /\ fsLast = NoRun
  /\ cgCaret = TextCaret(BlockTop(fsVariant, fsBlocks, fsMarkers, 1))
  /\ cgPointerDown = FALSE
  /\ cgLast = NoGuard
  /\ PCOff

\* The selections a transaction can set: a caret in a line of text, or a
\* range starting in it.
Selections(layout) ==
  { TextCaret(top) : top \in layout.lines } \cup { RangeSel(top) : top \in layout.lines }

\* A transaction that sets the selection to sel, followed by the guard's
\* update(). pressed: a mouse button is held.
CGSelect(layout, sel, pressed) ==
  /\ sel # cgCaret
  /\ \E fail \in {"none", "coords", "pos"} :
     \E o \in GuardUpdate(fsVariant, layout, sel, pressed, fail) :
       /\ cgCaret' = o.caret
       /\ cgLast' = [processed |-> ~pressed, settled |-> o.settled,
                     relocated |-> o.caret # sel, pressed |-> pressed,
                     from |-> sel, lookup |-> o.lookup,
                     dispatched |-> o.dispatched, count |-> o.count,
                     found |-> o.found]
  /\ UNCHANGED <<cgPointerDown, pcVars, fsVars>>

\* Arrow keys, with or without shift, or a command set the selection.
CGKeyMove ==
  /\ ~cgPointerDown
  /\ \E layout \in {Layout(fsVariant, fsBlocks, fsMarkers)} :
       \E sel \in Selections(layout) : CGSelect(layout, sel, FALSE)

\* mousedown on the editor.
CGMouseDown ==
  /\ ~cgPointerDown
  /\ cgPointerDown' = TRUE
  /\ UNCHANGED <<cgCaret, cgLast, pcVars, fsVars>>

\* The click puts the caret in the line under the pointer while the button
\* is held; dragging extends it to a range.
CGClick ==
  /\ cgPointerDown
  /\ \E layout \in {Layout(fsVariant, fsBlocks, fsMarkers)} :
       \E sel \in Selections(layout) : CGSelect(layout, sel, TRUE)

\* mouseup on the editor.
CGMouseUp ==
  /\ cgPointerDown
  /\ cgPointerDown' = FALSE
  /\ UNCHANGED <<cgCaret, cgLast, pcVars, fsVars>>

CGNext == CGKeyMove \/ CGMouseDown \/ CGClick \/ CGMouseUp

SpecCG == CGInit /\ [][CGNext]_vars

\* ------------------------------------------------ Page-Container claims
\* The relayout of the last transaction ran to its end and was applied.
RelayoutCompleted == pcLast.endedBy \in {"nomove", "limit", "nomeasure"}

\* ... and it had the heights of the rendered pages to work with.
RelayoutMeasured == pcLast.endedBy \in {"nomove", "limit"}

\* Position arithmetic never leaves the block boundaries of a page.
NoMisfit == pcLast.endedBy # "misfit"

\* C1: the blocks read in document order after a Page-Container relayout
\* are exactly the blocks before it, in the same order: none reordered,
\* duplicated, dropped or newly created.
C1_ContentPreserved ==
  RelayoutCompleted => BlockIds(pcDoc) = [i \in 1..pcLast.blocks |-> i]

\* C2: a relayout that runs on the rendered result of a completed relayout,
\* with no edit in between, moves no block and returns no transaction.
C2_Idempotent ==
  [][ (RelayoutMeasured /\ pcMounted /\ pcLast'.trigger = "touch")
        => (pcLast'.moves = <<>> /\ ~pcLast'.changed) ]_vars

\* C4: when a relayout ends because a pass made no move, every page that
\* holds more than one block measures at most the capacity.
C4_CapacityOnConvergence ==
  pcLast.endedBy = "nomove" =>
    \A p \in 1..Len(pcDoc) :
      Len(pcDoc[p]) > 1 => ScrollHeight(pcDoc[p]) <= pageContentHeightPx

\* C6: a relayout runs at most maxPasses passes and each pass relocates at
\* most one block, so at most maxPasses blocks are relocated.
C6_PassesBounded ==
  /\ pcLast.passes <= maxPasses
  /\ Len(pcLast.moves) <= pcLast.passes
  /\ Len(pcLast.moves) <= maxPasses

\* C6 witness: a relayout that stopped at the pass limit with a move in
\* every pass.
C6_Witness ==
  /\ pcLast.endedBy = "limit"
  /\ pcLast.passes = maxPasses
  /\ Len(pcLast.moves) = maxPasses

\* C7: a block whose own height exceeds the capacity is never relocated,
\* neither by the overflow check nor by the underflow check.
C7_OversizedStays ==
  RelayoutCompleted =>
    \A i \in 1..Len(pcLast.moves) : pcLast.moves[i].block.h <= pageContentHeightPx


\* C13: when a relayout finds no measurement (view or page container not
\* mounted, or no block yields a rendered element), it is a no-op in both
\* strategies: Page-Container returns no transaction and the page
\* assignment stays as the edit left it; Flow-Spacer dispatches nothing and
\* the current marker set stays as it is, also when it is not empty.
C13_NoMeasureNoOp ==
  /\ pcLast.endedBy = "nomeasure" =>
        /\ ~pcLast.changed /\ pcLast.moves = <<>> /\ pcLast.appended = 0
        /\ Len(pcDoc) = pcLast.pages
        /\ BlockIds(pcDoc) = [i \in 1..pcLast.blocks |-> i]
  /\ (fsLast.ran /\ ~fsLast.measured) => (~fsLast.dispatched /\ ~fsLast.changed)

\* C19 (Scenario C): when page 1 is the only page, holds several blocks
\* whose heights sum to 20px more than the capacity and its last block is
\* 50px high, one relayout moves exactly that block and no other onto a
\* newly created page 2, and page 1 keeps all its other blocks.
C19_ScenarioC ==
  [][ (pcDoc \in ScenarioDocs /\ pcMounted /\ pcLast'.trigger = "touch") =>
        /\ Len(pcLast'.moves) = 1
        /\ pcLast'.moves[1].block.id = Len(pcDoc[1])
        /\ pcLast'.moves[1].block.h = ScenarioLastHeight
        /\ pcLast'.moves[1].toPage = 1
        /\ pcLast'.appended = 1
        /\ Len(pcDoc') = 2
        /\ pcDoc'[1] = SubSeq(pcDoc[1], 1, Len(pcDoc[1]) - 1) ]_vars

\* C22: within one relayout, the page heights consulted by pass k+1 reflect
\* the block move applied in pass k: the page that lost the block is
\* measured without it, the page that received it with it; a height
\* measured before a move is never reused to decide a later move.
C22_ReadAfterWrite ==
  RelayoutCompleted => ~pcLast.reused

\* C23: the overflow step removes the trailing block of the first page that
\* measures more than the capacity and holds more than one block, and makes
\* it the first block of the immediately following page, which is a newly
\* appended page when the overflowing page is the last one. This holds in
\* every pass of a relayout: the step never fails and never puts the block
\* anywhere else.
C23_OverflowStep ==
  /\ pcLast.failed # "over"
  /\ \A i \in 1..Len(pcLast.moves) :
       pcLast.moves[i].kind = "over" =>
         /\ pcLast.moves[i].toPage = pcLast.moves[i].page + 1
         /\ pcLast.moves[i].toChild = 0

\* C24: an underflow pull never makes the receiving page overflow: once the
\* pulled block is added, the content of the receiving page is at most the
\* capacity, and no block is both pulled back and pushed forward within one
\* relayout.
C24_NoOscillation ==
  \A i \in 1..Len(pcLast.moves) :
    pcLast.moves[i].kind = "under" =>
      /\ pcLast.moves[i].after <= pageContentHeightPx
      /\ \A j \in 1..Len(pcLast.moves) :
           pcLast.moves[j].kind = "over" =>
             pcLast.moves[j].block.id # pcLast.moves[i].block.id

\* C25: the underflow step runs only in a pass where the overflow check
\* made no move (so a pass makes at most one move), it never fails, and the
\* block it pulls from the next page lands on the underfull page. Scenario
\* D: with page 1 reduced to 200px under the capacity and the 50px block
\* leading page 2, the next relayout pulls that block back to the end of
\* page 1.
C25_UnderflowStep ==
  [][ /\ pcLast'.failed # "under"
      /\ Len(pcLast'.moves) <= pcLast'.passes
      /\ \A i \in 1..Len(pcLast'.moves) :
           pcLast'.moves[i].kind = "under" =>
             pcLast'.moves[i].toPage = pcLast'.moves[i].page
      /\ (ScenarioReduced(pcDoc) /\ pcMounted /\ pcLast'.trigger = "touch") =>
           /\ pcLast'.moves # <<>>
           /\ pcLast'.moves[1].kind = "under"
           /\ pcLast'.moves[1].block = pcDoc[2][1]
           /\ pcDoc'[1] = Append(pcDoc[1], pcDoc[2][1]) ]_vars

\* ------------------------------------------------ Flow-Spacer claims
\* C3: when the frame callback runs a second time with no document edit,
\* selection change or change of a block's text height since the run before
\* it, the second run dispatches no transaction and leaves the marker set
\* (positions, keys and heights) as it was.
C3_SecondRunSilent ==
  fsLast.second => (~fsLast.dispatched /\ ~fsLast.changed)

\* The relayout has run and nothing has triggered it since.
RelayoutUpToDate ==
  fsLast.ran /\ fsLast.measured /\ ~fsFlags.stale /\ ~fsFlags.destroyed

\* Part of a block taller than the capacity is rendered on the page.
OversizedOnPage(page) ==
  \E j \in 1..Len(fsBlocks) :
    /\ fsBlocks[j].h > PAGE_CONTENT_HEIGHT(fsVariant)
    /\ PageOf(BlockTop(fsVariant, fsBlocks, fsMarkers, j)) <= page
    /\ page <= PageOf(BlockTop(fsVariant, fsBlocks, fsMarkers, j) + fsBlocks[j].h)

\* C5: after a Flow-Spacer relayout, with each spacer rendered before the
\* block it is positioned at, every block of height at most the capacity
\* lies within the body of one page: it does not reach into the footer
\* reserve, the gap between pages or the next header reserve. Pages that
\* show part of an oversized block are exempt.
C5_BlocksInBody ==
  RelayoutUpToDate =>
    \A i \in 1..Len(fsBlocks) :
      LET top == BlockTop(fsVariant, fsBlocks, fsMarkers, i)
      IN (fsBlocks[i].h <= PAGE_CONTENT_HEIGHT(fsVariant) /\ ~OversizedOnPage(PageOf(top)))
           => InBody(fsVariant, top, fsBlocks[i].h)

\* C9: at most one animation-frame callback is pending at any time, and
\* the triggers that arrive while one is pending are served by that one
\* callback: a callback is pending exactly while a trigger is unserved.
C9_Coalesced ==
  /\ fsSched.pending <= 1
  /\ ~fsFlags.destroyed => (fsFlags.stale <=> fsSched.pending = 1)

\* C9 witness: one run has served two edits that arrived while its callback was
\* pending, and no callback is left.
C9_Witness ==
  /\ fsLast.ran /\ fsLast.served >= 2
  /\ fsSched.pending = 0 /\ ~fsFlags.destroyed

\* C10: while frames keep firing and the view stays mounted, every trigger
\* is eventually followed by a relayout run, which measures the state as it
\* is then; a trigger that arrives while the callback executes is followed
\* by a further run.
C10_TriggerServed ==
  \A b \in BOOLEAN :
    (fsFlags.stale /\ fsFlags.runBit = b) ~> (fsFlags.runBit # b)

\* C10 witness: a run has served the trigger that was raised while the callback before
\* it was executing, and nothing is left to serve.
C10_Witness ==
  fsLast.ran /\ fsLast.servedReentrant /\ ~fsFlags.stale /\ fsSched.pending = 0

\* C11: the Flow-Spacer relayout never changes the document or the
\* selection: the only transaction the frame callback dispatches carries
\* the new marker set as plugin metadata, has no document step and sets no
\* selection, and applying it replaces the marker set by the one just
\* computed and changes nothing else; a run that dispatches nothing leaves
\* the marker set as it was.
C11_MarkersOnly ==
  [][ (fsFlags'.runBit # fsFlags.runBit) =>
        /\ fsBlocks' = fsBlocks
        /\ fsVariant' = fsVariant
        /\ fsLast'.tr \in {"none", "meta"}
        /\ fsLast'.dispatched <=> (fsLast'.tr = "meta")
        /\ (fsLast'.tr = "meta") =>
              fsMarkers' = buildFooterDecorations(fsVariant,
                              Measurable(fsBlocks, fsLast'.measured), fsMarkers)
        /\ (fsLast'.tr = "none") => fsMarkers' = fsMarkers ]_vars

\* C11 witness: the last run dispatched its marker transaction and the
\* marker set it installed is not empty.
C11_Witness ==
  fsLast.ran /\ fsLast.tr = "meta" /\ fsMarkers # <<>> /\ fsBlocks # <<>>

\* Number of pages the blocks occupy as rendered: the page of the last pixel
\* of the last block, counted from 1.
PagesOccupied ==
  PageOf(BlockTop(fsVariant, fsBlocks, fsMarkers, Len(fsBlocks))
           + fsBlocks[Len(fsBlocks)].h - 1) + 1

\* C18: after a relayout, the rendered stream height (header reserve, all
\* blocks, all spacers including the trailing one, footer reserve of the
\* container) is exactly n * pageHeight + (n - 1) * gap, where n is the
\* number of pages the blocks occupy, and the page count presented for
\* drawing is n.
C18_WholePages ==
  RelayoutUpToDate =>
    /\ contentHeight(fsVariant, fsBlocks, fsMarkers)
         = PagesOccupied * PAGE_HEIGHT + (PagesOccupied - 1) * PAGE_GAP
    /\ pageCount(contentHeight(fsVariant, fsBlocks, fsMarkers)) = PagesOccupied

\* The spacers emitted for blocks, without the trailing spacer.
IsBlockSpacer(d) == d.key[1] # "page-filler-tail"
BlockSpacers == SelectSeq(fsMarkers, IsBlockSpacer)
TailSpacers == SelectSeq(fsMarkers, LAMBDA d : ~IsBlockSpacer(d))

\* C20 (Scenario B): for a document of a single block of height 1000px,
\* taller than the capacity, the relayout emits exactly one spacer for that
\* block, and the rendered height is larger by exactly
\* headerReserve + footerReserve + gap (the carry) than without that spacer.
C20_ScenarioB ==
  (RelayoutUpToDate /\ Len(fsBlocks) = 1 /\ fsBlocks[1].h = 1000) =>
    /\ Len(BlockSpacers) = 1
    /\ contentHeight(fsVariant, fsBlocks, fsMarkers)
         - contentHeight(fsVariant, fsBlocks, TailSpacers)
       = footerCarryHeight(fsVariant)

\* C21 (Scenario A): for a document of one block of height 40px the
\* relayout yields page count 1, the Flow-Spacer strategy emits no spacer
\* at all, and the Page-Container strategy performs no move.
C21_ScenarioA ==
  /\ (RelayoutUpToDate /\ fsBlocks = <<ScenarioShortBlock>>) =>
        /\ fsMarkers = <<>>
        /\ pageCount(contentHeight(fsVariant, fsBlocks, fsMarkers)) = 1
  /\ (pcLast.trigger # "init" /\ pcLast.pages = 1 /\ pcLast.blocks = 1) =>
        (pcLast.moves = <<>> /\ ~pcLast.changed)

\* C26: after each relayout callback that measured the blocks, the marker
\* set held in the editor state equals the set the callback computed, in
\* positions, keys and spacer heights: a computed set that differs from the
\* current one only in the height of a spacer is applied as well.
C26_DiffCheck ==
  [][ (fsFlags'.runBit # fsFlags.runBit /\ fsLast'.measured) =>
        fsMarkers' = buildFooterDecorations(fsVariant, fsBlocks, fsMarkers) ]_vars

\* The markers of a set positioned at pos.
MarkersAt(decorations, pos) ==
  { i \in 1..Len(decorations) : decorations[i].pos = pos }

\* C27: when the first block fills the first page exactly and a second
\* block that fits on a page follows it, the relayout of the unmarked
\* document puts no spacer before the first block, exactly one spacer of
\* footer reserve + gap + header reserve before the second block, and
\* accounts the second block against a fresh page of full capacity: the
\* trailing spacer is what that page has left plus the footer reserve.
C27_ExactFit ==
  [][ ( /\ fsFlags'.runBit # fsFlags.runBit /\ fsLast'.measured
        /\ fsMarkers = <<>>
        /\ Len(fsBlocks) = 2
        /\ fsBlocks[1].h = PAGE_CONTENT_HEIGHT(fsVariant)
        /\ fsBlocks[2].h <= PAGE_CONTENT_HEIGHT(fsVariant) ) =>
      LET second == FlowBlockPos(fsBlocks, 2)
          end == FlowDocSize(fsBlocks)
      IN /\ MarkersAt(fsMarkers', 1) = {}
         /\ Cardinality(MarkersAt(fsMarkers', second)) = 1
         /\ SpacerAt(fsMarkers', second) = footerCarryHeight(fsVariant)
         /\ Cardinality(MarkersAt(fsMarkers', end)) = 1
         /\ SpacerAt(fsMarkers', end) =
              PAGE_CONTENT_HEIGHT(fsVariant) - fsBlocks[2].h
                + PAGE_BOTTOM_PADDING(fsVariant) ]_vars

\* The emission rule for one block of height h met with remainingOnPage
\* rem > 0: the heights of the spacers put before the block and what the
\* page has left after it.
RECURSIVE EmissionRule(_, _, _)
EmissionRule(variant, h, rem) ==
  IF h <= rem
    THEN [spacers |-> <<>>, remainingOnPage |-> rem - h]
    ELSE LET r == EmissionRule(variant, h - rem, PAGE_CONTENT_HEIGHT(variant))
         IN [spacers |-> <<rem + footerCarryHeight(variant)>> \o r.spacers,
             remainingOnPage |-> r.remainingOnPage]

\* What buildFooterDecorations has accumulated after the first n blocks as
\* measured in the current view.
PlacedUpTo(n) ==
  PlaceBlocks(fsVariant,
    [remainingOnPage |-> PAGE_CONTENT_HEIGHT(fsVariant), fillerIndex |-> 0,
     decorations |-> <<>>],
    SubSeq(collectBlockRects(fsBlocks, fsMarkers), 1, n), FlowDocSize(fsBlocks))

\* C28: blocks are processed in document order with remainingOnPage
\* starting at the capacity; a block of measured height h <= remainingOnPage
\* gets no spacer and reduces remainingOnPage by h; a block with
\* h > remainingOnPage > 0 gets, at its start, a spacer of remainingOnPage +
\* carry, then one of capacity + carry for as long as the residual exceeds
\* the capacity, and leaves the capacity minus the residual on the page.
C28_EmissionRule ==
  \A i \in 1..Len(fsBlocks) :
    LET rect == collectBlockRects(fsBlocks, fsMarkers)[i]
        before == PlacedUpTo(i - 1)
        after == PlacedUpTo(i)
        new == SubSeq(after.decorations, Len(before.decorations) + 1,
                      Len(after.decorations))
        rule == EmissionRule(fsVariant, rect.height, before.remainingOnPage)
    IN before.remainingOnPage > 0 =>
         /\ [j \in 1..Len(new) |-> new[j].height] = rule.spacers
         /\ \A j \in 1..Len(new) : new[j].pos = Max(1, rect.pos)
         /\ after.remainingOnPage = rule.remainingOnPage

\* C29: the marker transaction of a relayout does not itself schedule
\* another relayout (a run that sets off nothing else leaves no callback
\* pending), and once the external triggers have stopped, so that the only
\* steps are runs of the frame callback on the rendered blocks, the system
\* reaches after finitely many runs a state with no pending callback and
\* stays there, also when applying the markers makes the resize observer
\* schedule a run.
C29_Quiescence ==
  /\ [][ (fsFlags'.runBit # fsFlags.runBit /\ ~fsLast'.retriggered) =>
           fsSched'.pending = 0 ]_vars
  /\ (<>[][fsFlags'.runBit # fsFlags.runBit /\ fsLast'.measured]_vars)
       => <>[](fsSched.pending = 0)

\* C29 witness: a run applied new markers, which scheduled a further run;
\* that run found the markers unchanged, dispatched nothing and left no
\* callback pending.
C29_Witness ==
  /\ fsLast.ran /\ fsLast.servedReentrant /\ ~fsLast.dispatched
  /\ fsMarkers # <<>> /\ fsSched.pending = 0

\* ------------------------------------------------ Caret Guard claims
\* C8: after the guard has processed a selection change to a collapsed
\* caret while no mouse button is held, the caret is in the body of a
\* page: neither in a header reserve nor in a footer reserve or the gap
\* between pages.
C8_CaretInBody ==
  (/\ cgLast.processed /\ cgLast.settled
   /\ cgLast.from.at = "text" /\ cgLast.lookup = "ok")
    => ZoneOf(fsVariant, CoordsTop(cgCaret)) = "body"

\* The last selection change set a collapsed caret, no mouse button was
\* held, and every lookup of the guard gave a result.
GuardedCaret ==
  cgLast.processed /\ cgLast.from.at = "text" /\ cgLast.lookup = "ok"

\* C14: for a collapsed caret whose vertical offset lies in the footer
\* reserve of page p, the guard moves the caret to the first valid position
\* at or after the body start of page p+1, or to the document end when
\* there is no content there. The caret may be in the first line or at the
\* block boundary before it.
C14_FooterToNextBody ==
  (GuardedCaret /\ ZoneOf(fsVariant, CoordsTop(cgLast.from)) = "footer") =>
    LET layout == Layout(fsVariant, fsBlocks, fsMarkers)
        start == BodyStart(fsVariant, PageOf(CoordsTop(cgLast.from)) + 1)
        valid == { t \in layout.lines : t >= start }
    IN IF valid = {} THEN cgCaret = EndOfDoc(layout)
       ELSE CoordsTop(cgCaret) = (CHOOSE t \in valid : \A u \in valid : t <= u)

\* C15: on a selection change whose new selection is a non-collapsed range,
\* or a collapsed caret in the body zone of a page, the guard dispatches no
\* transaction and the selection stays exactly as it was set.
C15_ValidLeftAlone ==
  (\/ cgLast.from.at = "range"
   \/ cgLast.from.at = "text" /\ ZoneOf(fsVariant, CoordsTop(cgLast.from)) = "body")
    => (~cgLast.dispatched /\ ~cgLast.relocated /\ cgCaret = cgLast.from)

\* C15 witness: with no mouse button held, the selection was set to a range
\* that starts in a footer reserve, and the guard left it as it was.
C15_Witness ==
  /\ cgLast.processed /\ cgLast.from.at = "range"
  /\ ZoneOf(fsVariant, CoordsTop(cgLast.from)) = "footer"
  /\ fsVariant = 0
  /\ cgCaret = cgLast.from

\* C16: between a pointer press on the editor and the matching release, no
\* selection change makes the guard dispatch a caret relocation; selection
\* changes after the release are guarded again.
C16_QuietWhilePressed ==
  /\ cgLast.pressed => ~cgLast.dispatched
  /\ (/\ cgLast.processed /\ cgLast.lookup \in {"ok", "null"}
      /\ GuardTarget(fsVariant, cgLast.from, FALSE).act) => cgLast.dispatched

\* C17: if the coordinate lookup or the coordinate-to-position lookup of a
\* guard invocation throws or returns no result, the guard dispatches
\* nothing and the selection is left as it was set.
C17_LookupFailureLeavesSelection ==
  cgLast.lookup # "ok" => (~cgLast.dispatched /\ cgCaret = cgLast.from)

\* C30: when every coordinate lookup gives a position, the chain of
\* transactions the guard dispatches for one selection change is finite, at
\* most two dispatches long, and ends with a selection equal to the
\* previous one or a caret outside the guarded zones.
C30_ReentryTerminates ==
  (cgLast.lookup = "ok" /\ cgLast.found) =>
    (cgLast.settled /\ cgLast.count <= 2)
====
